---------------------------- MODULE Spec2Model ----------------------------
(***************************************************************************)
(* A model of the document-management application: the files table and    *)
(* the DocumentManager operations on it (core/document_manager.py), the   *)
(* unit of work of a database operation (db/connection.py) and the upload *)
(* handler (app.py).                                                       *)
(*                                                                         *)
(* Python strings are sequences of Unicode code points.  Python None and  *)
(* SQL NULL are the value None, which is no string.                        *)
(***************************************************************************)
EXTENDS Integers, Sequences, FiniteSets, TLC

VARIABLES
    files,      \* the files table: id -> row
    next_id,    \* the table's AUTO_INCREMENT counter
    now,        \* the database clock (CURRENT_TIMESTAMP)
    budget,     \* how many create_file, update_file and delete_file calls the run may still make
    last,       \* the last call of the document manager: operation, arguments, result
    fmt,        \* the last call of _format_file_size on its own: argument, result
    upload,     \* the upload handler: the files chosen, its position in them, its notices
    conc,       \* concurrent update_file calls: each caller's position, the row lock,
                \* the order of the commits
    unit        \* one database operation's unit of work: its position, its events,
                \* the writes of its transaction and the committed ones

vars == <<files, next_id, now, budget, last, fmt, upload, conc, unit>>

\* What the document manager's calls leave alone.
others == <<fmt, upload, conc, unit>>

(***************************************************************************)
(* Bounds of the model.                                                    *)
(***************************************************************************)
MaxCalls == 3       \* create_file, update_file and delete_file calls in a run
MaxQueryCalls == 2  \* the same, in the runs that list and search
MaxTime == 1        \* ticks of the database clock

None == << -1 >>

(***************************************************************************)
(* Inputs.  Code points: 37 '%', 95 '_', 65 'A', 97 'a', 98 'b', 109 'm', *)
(* 111 'o', 233 e-acute (2 bytes), 8364 euro sign (3 bytes), 128512 an     *)
(* emoji (4 bytes), 55357 a lone surrogate (str.encode refuses it).        *)
(***************************************************************************)
A == <<97>>
APercent == <<65, 37>>
AB == <<97, 98>>
Multibyte == <<233, 8364, 128512>>
Surrogate == <<55357>>
Owner == <<111>>
M == <<109>>

CreateArgs ==
    { [name |-> A, content |-> <<>>, owner |-> None, memo |-> None],
      [name |-> A, content |-> AB, owner |-> None, memo |-> None],
      [name |-> APercent, content |-> AB, owner |-> Owner, memo |-> <<>>],
      [name |-> AB, content |-> Multibyte, owner |-> None, memo |-> M],
      [name |-> A, content |-> Surrogate, owner |-> Owner, memo |-> None] }

UpdateArgs ==
    { [name |-> None, content |-> None, memo |-> None],
      [name |-> None, content |-> AB, memo |-> None],
      [name |-> None, content |-> Multibyte, memo |-> None],
      [name |-> None, content |-> <<>>, memo |-> None],
      [name |-> APercent, content |-> None, memo |-> None],
      [name |-> None, content |-> None, memo |-> M],
      [name |-> None, content |-> None, memo |-> <<>>],
      [name |-> A, content |-> Multibyte, memo |-> M],
      [name |-> None, content |-> Surrogate, memo |-> M] }

(***************************************************************************)
(* str.encode('utf-8') and len() of its result.                            *)
(***************************************************************************)
IsSurrogate(c) == c >= 55296 /\ c <= 57343

Encodable(s) == \A k \in 1..Len(s) : ~IsSurrogate(s[k])

Utf8CharLen(c) ==
    IF c < 128 THEN 1
    ELSE IF c < 2048 THEN 2
    ELSE IF c < 65536 THEN 3
    ELSE 4

RECURSIVE Utf8Len(_)
Utf8Len(s) == IF s = <<>> THEN 0 ELSE Utf8CharLen(Head(s)) + Utf8Len(Tail(s))

(***************************************************************************)
(* The files table (schema of create_tables).                              *)
(***************************************************************************)
Columns ==
    <<"id", "name", "content", "date_created", "date_modified", "owner", "memo", "size">>

\* INSERT INTO files (name, content, owner, memo, size): id and the two
\* timestamps take their defaults.
InsertRow(id, params, t) ==
    [id |-> id, name |-> params.name, content |-> params.content,
     date_created |-> t, date_modified |-> t,
     owner |-> params.owner, memo |-> params.memo, size |-> params.size]

\* SELECT *: the row as a tuple in the order of the schema's columns.
SelectStar(row) == [k \in 1..Len(Columns) |-> row[Columns[k]]]

(***************************************************************************)
(* create_file                                                             *)
(***************************************************************************)
CreateParams(name, content, owner, memo) ==
    [name |-> name, content |-> content, owner |-> owner, memo |-> memo,
     size |-> Utf8Len(content)]

\* What the database does with a statement and its commit: both succeed, the
\* execute raises, or the commit raises (and the connection's close rolls back).
DbOutcomes == {"ok", "execute_fails", "commit_fails"}

\* One call of create_file.  An INSERT that is rolled back has taken its id
\* from the AUTO_INCREMENT counter all the same.
CreateFileCall(args, db) ==
    IF ~Encodable(args.content) \/ db = "execute_fails"
    THEN /\ last' = [op |-> "create", args |-> args, raised |-> TRUE]
         /\ UNCHANGED <<files, next_id>>
    ELSE IF db = "commit_fails"
    THEN /\ last' = [op |-> "create", args |-> args, raised |-> TRUE]
         /\ next_id' = next_id + 1
         /\ UNCHANGED files
    ELSE /\ files' = [i \in DOMAIN files \cup {next_id} |->
                        IF i = next_id
                        THEN InsertRow(next_id,
                                       CreateParams(args.name, args.content,
                                                    args.owner, args.memo), now)
                        ELSE files[i]]
         /\ next_id' = next_id + 1
         /\ last' = [op |-> "create", args |-> args, raised |-> FALSE, ret |-> next_id]

CreateFile ==
    \E args \in CreateArgs, db \in DbOutcomes :
        /\ budget > 0
        /\ budget' = budget - 1
        /\ CreateFileCall(args, db)
        /\ UNCHANGED <<now, others>>

(***************************************************************************)
(* get_file                                                                *)
(***************************************************************************)
NoRecord == [absent |-> TRUE]

\* The record read one column off from owner on.
GetFileRecordShifted(row) ==
    [id |-> row[1], name |-> row[2], content |-> row[3], date_created |-> row[4],
     date_modified |-> row[5], owner |-> row[7], memo |-> row[6], size |-> row[8]]

GetFileRecord(row) ==
    [id |-> row[1], name |-> row[2], content |-> row[3], date_created |-> row[4],
     date_modified |-> row[5], owner |-> row[6], memo |-> row[7], size |-> row[8]]

GetFileResult(table, file_id) ==
    IF file_id \in DOMAIN table THEN GetFileRecord(SelectStar(table[file_id])) ELSE NoRecord

\* The ids handed out so far, and the next one, which no row ever had.
FileIds == 1..next_id

GetFile ==
    \E file_id \in FileIds :
        /\ last' = [op |-> "get", file_id |-> file_id, ret |-> GetFileResult(files, file_id)]
        /\ UNCHANGED <<files, next_id, now, budget, others>>

(***************************************************************************)
(* update_file                                                             *)
(***************************************************************************)
\* A statement that assigns content and leaves size as it was.
UpdateParamsStaleSize(name, content, memo) ==
    [c \in (IF name # None THEN {"name"} ELSE {})
           \cup (IF content # None THEN {"content"} ELSE {})
           \cup (IF memo # None THEN {"memo"} ELSE {}) |->
        CASE c = "name" -> name
          [] c = "content" -> content
          [] c = "memo" -> memo]

\* The columns the statement assigns, with their values.
UpdateParams(name, content, memo) ==
    [c \in (IF name # None THEN {"name"} ELSE {})
           \cup (IF content # None THEN {"content", "size"} ELSE {})
           \cup (IF memo # None THEN {"memo"} ELSE {}) |->
        CASE c = "name" -> name
          [] c = "content" -> content
          [] c = "size" -> Utf8Len(content)
          [] c = "memo" -> memo]

\* A statement that assigns every column it could, NULL to the ones not supplied.
UpdateRowAllColumns(row, params, t) ==
    [c \in DOMAIN row |->
        IF c \in DOMAIN params THEN params[c]
        ELSE IF c \in {"name", "content", "memo"} THEN None
        ELSE IF c = "date_modified" THEN t
        ELSE row[c]]

\* UPDATE files SET ... on one row at time t: date_modified is ON UPDATE
\* CURRENT_TIMESTAMP, set when the statement changes a value of the row.
UpdateRow(row, params, t) ==
    LET changed == \E c \in DOMAIN params : params[c] # row[c]
    IN  [c \in DOMAIN row |->
            IF c \in DOMAIN params THEN params[c]
            ELSE IF c = "date_modified" /\ changed THEN t
            ELSE row[c]]

UpdateFile ==
    \E file_id \in FileIds, args \in UpdateArgs, db \in DbOutcomes :
        /\ budget > 0
        /\ budget' = budget - 1
        /\ IF args.content # None /\ ~Encodable(args.content)
            THEN /\ last' = [op |-> "update", file_id |-> file_id, args |-> args, raised |-> TRUE]
                 /\ UNCHANGED <<files, next_id, now, others>>
            ELSE LET params == UpdateParams(args.name, args.content, args.memo)
                 IN  IF DOMAIN params = {}
                     THEN /\ last' = [op |-> "update", file_id |-> file_id, args |-> args,
                                      raised |-> FALSE, ret |-> FALSE]
                          /\ UNCHANGED <<files, next_id, now, others>>
                     ELSE IF db # "ok"
                     THEN /\ last' = [op |-> "update", file_id |-> file_id, args |-> args,
                                      raised |-> TRUE]
                          /\ UNCHANGED <<files, next_id, now, others>>
                     ELSE /\ files' = [i \in DOMAIN files |->
                                         IF i = file_id THEN UpdateRow(files[i], params, now)
                                         ELSE files[i]]
                          /\ last' = [op |-> "update", file_id |-> file_id, args |-> args,
                                      raised |-> FALSE, ret |-> file_id \in DOMAIN files]
                          /\ UNCHANGED <<next_id, now, others>>

(***************************************************************************)
(* delete_file                                                             *)
(***************************************************************************)
\* A DELETE whose WHERE clause compares with >= instead of =.
DeleteRowsFrom(table, file_id) == [i \in {j \in DOMAIN table : j < file_id} |-> table[i]]

DeleteRows(table, file_id) == [i \in DOMAIN table \ {file_id} |-> table[i]]

DeleteFile ==
    \E file_id \in FileIds, db \in DbOutcomes :
        /\ budget > 0
        /\ budget' = budget - 1
        /\ IF db # "ok"
           THEN /\ last' = [op |-> "delete", file_id |-> file_id, raised |-> TRUE]
                /\ UNCHANGED <<files, next_id, now, others>>
           ELSE /\ files' = DeleteRows(files, file_id)
                /\ last' = [op |-> "delete", file_id |-> file_id, raised |-> FALSE,
                            ret |-> file_id \in DOMAIN files]
                /\ UNCHANGED <<next_id, now, others>>

(***************************************************************************)
(* _format_file_size.  A byte count is a Python int, which has no upper   *)
(* limit; here it is the sequence of its base-1024 digits, lowest first,  *)
(* so that counts of a terabyte and more can be written down.  Dividing   *)
(* by 1024.0 moves the point one digit up and is exact in binary floating *)
(* point for the counts below 2^53 that the model draws.                   *)
(***************************************************************************)
Base == 1024

SizeNames == <<"B", "KB", "MB", "GB">>

RECURSIVE Limbs(_)
Limbs(n) == IF n < Base THEN <<n>> ELSE <<n % Base>> \o Limbs(n \div Base)

RECURSIVE LimbsValue(_)
LimbsValue(L) == IF L = <<>> THEN 0 ELSE Head(L) + Base * LimbsValue(Tail(L))

IsZero(L) == \A k \in 1..Len(L) : L[k] = 0

\* size_bytes > 1024 after i divisions: the comparison without its equality.
AboveBase(L, i) ==
    \/ \E k \in (i + 3)..Len(L) : L[k] # 0
    \/ (i + 2 <= Len(L) /\ L[i + 2] > 1)
    \/ (i + 2 <= Len(L) /\ L[i + 2] = 1 /\ \E k \in 1..(i + 1) : L[k] # 0)

\* size_bytes >= 1024 after i divisions
AtLeastBase(L, i) == \E k \in (i + 2)..Len(L) : L[k] # 0

\* The while loop: the value of i when it ends.
RECURSIVE SizeLoop(_, _)
SizeLoop(L, i) ==
    IF AtLeastBase(L, i) /\ i < Len(SizeNames) - 1 THEN SizeLoop(L, i + 1) ELSE i

\* F * m + c on digits: the digits of the product below Base^Len(F), and the carry out.
RECURSIVE MulLimbs(_, _, _)
MulLimbs(F, m, c) ==
    IF F = <<>> THEN [limbs |-> <<>>, carry |-> c]
    ELSE LET t == Head(F) * m + c
             rest == MulLimbs(Tail(F), m, t \div Base)
         IN  [limbs |-> <<t % Base>> \o rest.limbs, carry |-> rest.carry]

\* f"{x:.1f}" of x = ip + F / Base^Len(F): the decimal nearest to x, a tie
\* going to the even tenth.
OneDecimal(ip, F) ==
    LET p == MulLimbs(F, 10, 0)
        R == p.limbs
        n == Len(R)
        half == Base \div 2
        above == n > 0 /\ (R[n] > half \/ (R[n] = half /\ \E k \in 1..(n - 1) : R[k] # 0))
        tie == n > 0 /\ R[n] = half /\ \A k \in 1..(n - 1) : R[k] = 0
        up == above \/ (tie /\ p.carry % 2 = 1)
        t == ip * 10 + p.carry + (IF up THEN 1 ELSE 0)
    IN  [units |-> t \div 10, tenth |-> t % 10]

FormatFileSize(L) ==
    IF IsZero(L) THEN "0B"
    ELSE LET i == SizeLoop(L, 0)
             r == OneDecimal(LimbsValue(SubSeq(L, i + 1, Len(L))), SubSeq(L, 1, i))
         IN  ToString(r.units) \o "." \o ToString(r.tenth) \o SizeNames[i + 1]

(***************************************************************************)
(* ORDER BY date_created DESC: the rows in an order the clause allows;    *)
(* rows created at the same time come in either order.                     *)
(***************************************************************************)
OrderByDateCreatedDesc(table, ids) ==
    { s \in [1..Cardinality(ids) -> ids] :
        /\ \A j, k \in DOMAIN s : j # k => s[j] # s[k]
        /\ \A j, k \in DOMAIN s :
              j < k => table[s[j]].date_created >= table[s[k]].date_created }

(***************************************************************************)
(* get_all_files                                                           *)
(***************************************************************************)
ListColumns == <<"id", "name", "date_created", "size", "has_memo">>

\* A flag that tests the memo for being non-empty instead of non-NULL.
HasMemoNonEmpty(memo) == IF memo # None /\ memo # <<>> THEN "Yes" ELSE "No"

HasMemo(memo) == IF memo # None THEN "Yes" ELSE "No"

ListRow(row) ==
    <<row.id, row.name, row.date_created, FormatFileSize(Limbs(row.size)), HasMemo(row.memo)>>

DataFrame(rows, columns) == [columns |-> columns, rows |-> rows]

GetAllFiles ==
    \E order \in OrderByDateCreatedDesc(files, DOMAIN files) :
        LET rows == [k \in DOMAIN order |-> ListRow(files[order[k]])]
        IN  /\ last' = [op |-> "list",
                        ret |-> IF rows # <<>> THEN DataFrame(rows, ListColumns)
                                ELSE DataFrame(<<>>, ListColumns)]
            /\ UNCHANGED <<files, next_id, now, budget, others>>

(***************************************************************************)
(* search_files                                                            *)
(***************************************************************************)
Percent == 37
Underscore == 95

\* The table's collation (the default one of utf8mb4: utf8mb4_0900_ai_ci, or
\* utf8mb4_general_ci before MySQL 8) compares letters without regard to case
\* and to accents: a letter counts as its base letter in lower case.  The table
\* below is that of the characters up to U+00FF on which the two collations
\* agree; the other letters of that range (AE, ETH, O WITH STROKE, THORN, SHARP S)
\* and the characters above it are kept apart from every other character, and
\* the inputs hold none of the former.
Fold(c) ==
    IF c >= 65 /\ c <= 90 THEN c + 32
    ELSE IF c \in (192..197) \cup (224..229) THEN 97
    ELSE IF c \in {199, 231} THEN 99
    ELSE IF c \in (200..203) \cup (232..235) THEN 101
    ELSE IF c \in (204..207) \cup (236..239) THEN 105
    ELSE IF c \in {209, 241} THEN 110
    ELSE IF c \in (210..214) \cup (242..246) THEN 111
    ELSE IF c \in (217..220) \cup (249..252) THEN 117
    ELSE IF c \in {221, 253, 255} THEN 121
    ELSE c

\* s LIKE p: '%' stands for any run of characters, '_' for any one character.
\* The inputs hold no backslash, LIKE's escape character.
RECURSIVE Like(_, _)
Like(s, p) ==
    IF p = <<>> THEN s = <<>>
    ELSE IF Head(p) = Percent
         THEN Like(s, Tail(p)) \/ (s # <<>> /\ Like(Tail(s), p))
    ELSE /\ s # <<>>
         /\ (Head(p) = Underscore \/ Fold(Head(p)) = Fold(Head(s)))
         /\ Like(Tail(s), Tail(p))

SearchPattern(search_term) == <<Percent>> \o search_term \o <<Percent>>

SearchMatches(table, search_term) ==
    { i \in DOMAIN table :
        \/ Like(table[i].name, SearchPattern(search_term))
        \/ Like(table[i].content, SearchPattern(search_term)) }

SearchColumns == <<"id", "name", "date_created", "size">>

SearchRow(row) == <<row.id, row.name, row.date_created, FormatFileSize(Limbs(row.size))>>

SearchTerms ==
    { <<>>, <<97>>, <<65>>, <<66, 37>>, <<233>>, <<201>>, <<101>>, <<37>>, <<95>>,
      <<97, 95>> }

SearchFiles ==
    \E search_term \in SearchTerms :
        \E order \in OrderByDateCreatedDesc(files, SearchMatches(files, search_term)) :
            LET rows == [k \in DOMAIN order |-> SearchRow(files[order[k]])]
            IN  /\ last' = [op |-> "search", search_term |-> search_term,
                            ret |-> IF rows # <<>> THEN DataFrame(rows, SearchColumns)
                                    ELSE DataFrame(<<>>, SearchColumns)]
                /\ UNCHANGED <<files, next_id, now, budget, others>>

(***************************************************************************)
(* The database clock.                                                     *)
(***************************************************************************)
Tick ==
    /\ now < MaxTime
    /\ now' = now + 1
    /\ UNCHANGED <<files, next_id, budget, last, others>>

StoreInit ==
    /\ files = [i \in {} |-> 0]
    /\ next_id = 1
    /\ now = 0
    /\ last = [op |-> "init"]

(***************************************************************************)
(* Runs of create_file, get_file, update_file and delete_file.             *)
(***************************************************************************)
FmtInit == fmt = [op |-> "init"]

\* No upload is going on.
UploadIdle == upload = [pc |-> "idle"]

\* No concurrent callers.
ConcIdle == conc = [sessions |-> <<>>, row_lock |-> 0, commits |-> <<>>]

\* No unit of work is watched.
UnitIdle == unit = [pc |-> "idle"]

Init == StoreInit /\ budget = MaxCalls /\ FmtInit /\ UploadIdle /\ ConcIdle /\ UnitIdle

Next ==
    \/ CreateFile
    \/ GetFile
    \/ UpdateFile
    \/ DeleteFile
    \/ Tick

Spec == Init /\ [][Next]_vars

(***************************************************************************)
(* Properties of the runs of create_file, get_file, update_file and       *)
(* delete_file.                                                            *)
(***************************************************************************)
\* The number of bytes of the UTF-8 encoding of s: one per character, and one
\* more for each of the thresholds 0x80, 0x800 and 0x10000 the character reaches.
Utf8ByteCount(s) ==
    Len(s) + Cardinality({k \in 1..Len(s) : s[k] >= 128})
           + Cardinality({k \in 1..Len(s) : s[k] >= 2048})
           + Cardinality({k \in 1..Len(s) : s[k] >= 65536})

\* The step is a call of create_file, update_file or delete_file.
IsCall == budget' = budget - 1

\* C1: after any sequence of create_file, update_file and delete_file calls from
\* the empty table, every stored row's size is the UTF-8 byte length of its content.
C1_SizeIsByteLength ==
    \A i \in DOMAIN files : files[i].size = Utf8ByteCount(files[i].content)

\* C1's case: an update has just replaced a row's content by a text of multi-byte
\* characters, and another call was made before it.
C1_Witness ==
    /\ last.op = "update" /\ ~last.raised /\ last.ret
    /\ last.args.content = Multibyte
    /\ files[last.file_id].content = Multibyte
    /\ files[last.file_id].size = 9
    /\ budget <= MaxCalls - 2

\* C2: create_file returns an id for which get_file, called next, returns a record
\* with that id and exactly the name, content, owner and memo supplied (None for an
\* owner or memo left out).
C2_CreateThenGet ==
    (last.op = "create" /\ ~last.raised) =>
        LET r == GetFileResult(files, last.ret)
        IN  /\ r # NoRecord
            /\ r.id = last.ret
            /\ r.name = last.args.name
            /\ r.content = last.args.content
            /\ r.owner = last.args.owner
            /\ r.memo = last.args.memo

\* C2's case: a create_file with an owner and an empty memo has returned, with
\* another row in the table.
C2_Witness ==
    /\ last.op = "create" /\ ~last.raised
    /\ last.args.owner = Owner /\ last.args.memo = <<>>
    /\ last.ret \in DOMAIN files
    /\ Cardinality(DOMAIN files) = 2

\* C3: update_file changes only the supplied fields of the row with the given id:
\* the fields not supplied, and id, owner and date_created, stay; supplied content
\* sets content and size (and date_modified, to the time of the change); a call
\* supplying nothing changes nothing; no other row changes.
C3_UpdateFrame ==
    [][(IsCall /\ last'.op = "update") =>
        LET id == last'.file_id
            args == last'.args
        IN  /\ DOMAIN files' = DOMAIN files
            /\ \A i \in DOMAIN files \ {id} : files'[i] = files[i]
            /\ (args.name = None /\ args.content = None /\ args.memo = None) =>
                  (files' = files /\ last'.ret = FALSE)
            /\ last'.raised => files' = files
            /\ (id \in DOMAIN files /\ ~last'.raised) =>
                  LET old == files[id]
                      new == files'[id]
                  IN  /\ new.id = old.id
                      /\ new.owner = old.owner
                      /\ new.date_created = old.date_created
                      /\ new.name = (IF args.name = None THEN old.name ELSE args.name)
                      /\ new.memo = (IF args.memo = None THEN old.memo ELSE args.memo)
                      /\ new.content =
                            (IF args.content = None THEN old.content ELSE args.content)
                      /\ new.size =
                            (IF args.content = None THEN old.size
                             ELSE Utf8ByteCount(args.content))
                      /\ new.date_modified =
                            (IF \E c \in {"name", "content", "memo", "size"} : new[c] # old[c]
                             THEN now ELSE old.date_modified)
    ]_vars

\* C3's case: an update supplying only content has changed the content, the size
\* and date_modified of a row that has an owner and a memo, beside another row.
C3_Witness ==
    /\ last.op = "update" /\ ~last.raised /\ last.ret
    /\ last.args = [name |-> None, content |-> Multibyte, memo |-> None]
    /\ Cardinality(DOMAIN files) = 2
    /\ files[last.file_id].owner = Owner
    /\ files[last.file_id].memo = <<>>
    /\ files[last.file_id].name = APercent
    /\ files[last.file_id].date_modified > files[last.file_id].date_created

\* C4: delete_file of an existing id returns true and removes exactly that row,
\* after which get_file returns the absence value; delete_file of an id that has no
\* row (deleted before, or never created) returns false and changes nothing.  A
\* call that the database fails raises and changes nothing.
C4_Delete ==
    [][(IsCall /\ last'.op = "delete") =>
        LET id == last'.file_id
        IN  IF last'.raised THEN files' = files
            ELSE /\ GetFileResult(files', id) = NoRecord
                 /\ IF id \in DOMAIN files
                    THEN /\ last'.ret = TRUE
                         /\ DOMAIN files' = DOMAIN files \ {id}
                         /\ \A i \in DOMAIN files' : files'[i] = files[i]
                    ELSE /\ last'.ret = FALSE
                         /\ files' = files
    ]_vars

\* C4's case: a second delete_file of an id that was created and deleted has
\* returned false.
C4_Witness ==
    /\ last.op = "delete" /\ ~last.raised /\ last.ret = FALSE
    /\ last.file_id < next_id
    /\ last.file_id \notin DOMAIN files
    /\ budget = MaxCalls - 3

(***************************************************************************)
(* Runs that also list and search.                                         *)
(***************************************************************************)
InitQuery ==
    StoreInit /\ budget = MaxQueryCalls /\ FmtInit /\ UploadIdle /\ ConcIdle /\ UnitIdle

NextQuery ==
    \/ CreateFile
    \/ UpdateFile
    \/ DeleteFile
    \/ Tick
    \/ GetAllFiles
    \/ SearchFiles

SpecQuery == InitQuery /\ [][NextQuery]_vars

(***************************************************************************)
(* Calls of _format_file_size on byte counts below 1024^5: every count    *)
(* whose base-1024 digits are among Digits.                                *)
(***************************************************************************)
Digits == {0, 1, 52, 256, 512, 768, 1023}

SizeInputs == [1..(Len(SizeNames) + 1) -> Digits]

\* The call that is waiting: the handler has its argument and has not run.
FormatSize ==
    /\ fmt.op = "call"
    /\ fmt' = [op |-> "format", size_bytes |-> fmt.size_bytes,
               i |-> SizeLoop(fmt.size_bytes, 0), ret |-> FormatFileSize(fmt.size_bytes)]
    /\ UNCHANGED <<files, next_id, now, budget, last, upload, conc, unit>>

InitFmt ==
    /\ StoreInit
    /\ budget = 0
    /\ UploadIdle
    /\ ConcIdle
    /\ UnitIdle
    /\ \E size_bytes \in SizeInputs : fmt = [op |-> "call", size_bytes |-> size_bytes]

NextFmt == FormatSize

SpecFmt == InitFmt /\ [][NextFmt]_vars

\* The text of u.t followed by the unit's name.
SizeText(u, t, name) == ToString(u) \o "." \o ToString(t) \o name

\* n / d to one decimal in plain integer arithmetic, a tie going to the even tenth:
\* the number of tenths.
NearestTenth(n, d) ==
    LET q == (10 * n) \div d
        r == (10 * n) % d
    IN  IF 2 * r > d \/ (2 * r = d /\ q % 2 = 1) THEN q + 1 ELSE q

\* 1024^k
RECURSIVE Pow1024(_)
Pow1024(k) == IF k = 0 THEN 1 ELSE 1024 * Pow1024(k - 1)

\* C6: _format_file_size(0) is "0B"; otherwise the unit is the largest of B, KB,
\* MB, GB whose power of 1024 is at most n (GB at most), reached in at most 3
\* divisions; the magnitude n / 1024^i is at least 1, and below 1024 for every
\* unit but GB; the text is that magnitude to one decimal, followed by the unit
\* (compared digit for digit for the counts below 100 MB, whose tenfold is within
\* the checker's integers); 1023 gives "1023.0B", 1024 "1.0KB" and 1048576 "1.0MB".
C6_FormatFileSize ==
    (fmt.op = "format") =>
        LET L == fmt.size_bytes
            top == CHOOSE k \in 1..Len(L) : L[k] # 0 /\ \A j \in (k + 1)..Len(L) : L[j] = 0
            i == fmt.i
            whole == LimbsValue(SubSeq(L, i + 1, Len(L)))
        IN  IF \A k \in 1..Len(L) : L[k] = 0
            THEN fmt.ret = "0B"
            ELSE /\ i = (IF top - 1 < 3 THEN top - 1 ELSE 3)
                 /\ i \in 0..3
                 /\ whole >= 1
                 /\ i < 3 => whole < 1024
                 /\ \/ \E t \in 0..9 : fmt.ret = SizeText(whole, t, SizeNames[i + 1])
                    \/ fmt.ret = SizeText(whole + 1, 0, SizeNames[i + 1])
                 /\ (L[3] < 100 /\ \A k \in 4..Len(L) : L[k] = 0) =>
                       LET n == L[1] + 1024 * L[2] + 1024 * 1024 * L[3]
                           t == NearestTenth(n, Pow1024(i))
                       IN  fmt.ret = SizeText(t \div 10, t % 10, <<"B", "KB", "MB">>[i + 1])
                 /\ L = <<1023, 0, 0, 0, 0>> => fmt.ret = "1023.0B"
                 /\ L = <<0, 1, 0, 0, 0>> => fmt.ret = "1.0KB"
                 /\ L = <<0, 0, 1, 0, 0>> => fmt.ret = "1.0MB"

\* C6's case: a count of 1024^4 + 1024 bytes, where only the cap on the unit ends
\* the loop, formatted in GB with a magnitude of 1024.
C6_Witness ==
    /\ fmt.op = "format"
    /\ fmt.size_bytes = <<0, 1, 0, 0, 1>>
    /\ fmt.i = 3
    /\ fmt.ret = "1024.0GB"

(***************************************************************************)
(* The upload handler (app.py, upload_files).  A chosen file is its name  *)
(* and what read_text(encoding='utf-8') makes of it: a text, or BadBytes  *)
(* when the read raises (bytes that are not UTF-8, a file that is gone, a  *)
(* datapath that is a plain str and has no read_text).                    *)
(* input.file_upload() is None when no file was chosen: chosen is FALSE.   *)
(***************************************************************************)
MaxBatch == 2       \* files in one upload

BadBytes == << -2 >>

UploadPool ==
    { [name |-> A, data |-> <<>>],
      [name |-> AB, data |-> Multibyte],
      [name |-> APercent, data |-> BadBytes] }

RECURSIVE SeqsUpTo(_, _)
SeqsUpTo(S, n) ==
    IF n = 0 THEN {<<>>}
    ELSE SeqsUpTo(S, n - 1) \cup {Append(q, x) : q \in {r \in SeqsUpTo(S, n - 1) : Len(r) = n - 1}, x \in S}

Batches == SeqsUpTo(UploadPool, MaxBatch)

\* An exception leaves the handler and ends it: the loop without its try.
OnUploadErrorPropagate(u, name) == [u EXCEPT !.pc = "raised"]

\* except Exception: the error notice, and on to the next file.
OnUploadError(u, name) ==
    [u EXCEPT !.notices = Append(@, [type |-> "error", name |-> name]), !.pos = @ + 1]

\* The success notice, and on to the next file.
OnUploadSuccess(u, name) ==
    [u EXCEPT !.notices = Append(@, [type |-> "success", name |-> name]), !.pos = @ + 1]

\* The button is pressed: the handler starts, and has nothing to do when no file
\* was chosen.
UploadStart ==
    /\ upload.pc = "idle"
    /\ upload' = IF ~upload.chosen THEN [upload EXCEPT !.pc = "done"]
                 ELSE [upload EXCEPT !.pc = "loop"]
    /\ UNCHANGED <<files, next_id, now, budget, last, fmt, conc, unit>>

\* One round of the for loop.
UploadNext ==
    /\ upload.pc = "loop"
    /\ upload.pos <= Len(upload.files_info)
    /\ LET file_info == upload.files_info[upload.pos]
       IN  IF file_info.data = BadBytes
           THEN /\ upload' = OnUploadError(upload, file_info.name)
                /\ UNCHANGED <<files, next_id, last>>
           ELSE \E db \in DbOutcomes :
                   /\ CreateFileCall([name |-> file_info.name, content |-> file_info.data,
                                      owner |-> None, memo |-> None], db)
                   /\ upload' = IF db = "ok" THEN OnUploadSuccess(upload, file_info.name)
                                ELSE OnUploadError(upload, file_info.name)
    /\ UNCHANGED <<now, budget, fmt, conc, unit>>

\* The loop has run through the list: the handler returns.
UploadReturn ==
    /\ upload.pc = "loop"
    /\ upload.pos > Len(upload.files_info)
    /\ upload' = [upload EXCEPT !.pc = "done"]
    /\ UNCHANGED <<files, next_id, now, budget, last, fmt, conc, unit>>

InitUpload ==
    /\ StoreInit
    /\ budget = 0
    /\ FmtInit
    /\ ConcIdle
    /\ UnitIdle
    /\ \/ upload = [pc |-> "idle", chosen |-> FALSE, files_info |-> <<>>, pos |-> 1,
                    notices |-> <<>>]
       \/ \E b \in Batches :
             upload = [pc |-> "idle", chosen |-> TRUE, files_info |-> b, pos |-> 1,
                       notices |-> <<>>]

NextUpload ==
    \/ UploadStart
    \/ UploadNext
    \/ UploadReturn
    \/ Tick

SpecUpload == InitUpload /\ [][NextUpload]_vars

\* The positions among the first n files whose notice is a success, in order.
RECURSIVE Succeeded(_, _)
Succeeded(notices, n) ==
    IF n = 0 THEN <<>>
    ELSE IF notices[n].type = "success" THEN Append(Succeeded(notices, n - 1), n)
    ELSE Succeeded(notices, n - 1)

\* The ids of the table in increasing order.
RECURSIVE SortedIds(_)
SortedIds(ids) ==
    IF ids = {} THEN <<>>
    ELSE LET m == CHOOSE i \in ids : \A j \in ids : i <= j
         IN  <<m>> \o SortedIds(ids \ {m})

\* C8: the upload handler takes the files one at a time in list order; a failure
\* of one file, at any position, is caught and reported for that file only: every
\* other file is still processed, each file that succeeds adds exactly one row with
\* its name and content, a failing file adds none, and no exception leaves the
\* handler.
C8_UploadPerFile ==
    (upload.pc # "idle" /\ upload.chosen) =>
        LET info == upload.files_info
            n == upload.pos - 1
            ok == Succeeded(upload.notices, n)
            ids == SortedIds(DOMAIN files)
        IN  /\ upload.pc \in {"loop", "done"}
            /\ upload.pc = "done" => n = Len(info)
            /\ Len(upload.notices) = n
            /\ \A k \in 1..n :
                  /\ upload.notices[k].name = info[k].name
                  /\ info[k].data = BadBytes => upload.notices[k].type = "error"
            /\ Len(ids) = Len(ok)
            /\ \A j \in 1..Len(ok) :
                  /\ files[ids[j]].name = info[ok[j]].name
                  /\ files[ids[j]].content = info[ok[j]].data
                  /\ files[ids[j]].size = Utf8ByteCount(info[ok[j]].data)

\* C8's case: the handler has returned from two files of which the first could not
\* be read, and the second is in the table.
C8_Witness ==
    /\ upload.pc = "done"
    /\ upload.chosen
    /\ Len(upload.files_info) = 2
    /\ upload.files_info[1].data = BadBytes
    /\ upload.notices[1].type = "error"
    /\ upload.notices[2].type = "success"
    /\ Cardinality(DOMAIN files) = 1
    /\ \E i \in DOMAIN files : files[i].name = upload.files_info[2].name

(***************************************************************************)
(* Concurrent update_file calls on one row.  Each caller has a connection *)
(* of its own.  The table is InnoDB: the UPDATE locks the row it matches   *)
(* until its transaction ends, works on the row as last committed, and its *)
(* change shows at the commit.                                             *)
(***************************************************************************)
MaxSessions == 2    \* concurrent callers

Sessions == 1..MaxSessions

\* The row the callers contend on, as create_file made it.
ConcRow == InsertRow(1, CreateParams(A, AB, Owner, <<>>), 0)

ConcArgs ==
    { [name |-> None, content |-> None, memo |-> None],
      [name |-> None, content |-> Multibyte, memo |-> None],
      [name |-> None, content |-> <<>>, memo |-> None],
      [name |-> APercent, content |-> None, memo |-> None],
      [name |-> None, content |-> None, memo |-> M],
      [name |-> AB, content |-> A, memo |-> None] }

\* A database without row locks: every statement runs at once.
RowLockIgnored(p) == TRUE

\* The row is not locked by another caller's transaction.
RowLockFree(p) == conc.row_lock \in {0, p}

\* Lines 78-96: the caller builds its statement, and returns False when no field
\* was supplied.
ConcCall(p) ==
    /\ conc.sessions[p].pc = "idle"
    /\ \E args \in ConcArgs :
          LET params == UpdateParams(args.name, args.content, args.memo)
          IN  conc' = [conc EXCEPT !.sessions[p] =
                          IF DOMAIN params = {}
                          THEN [pc |-> "done", args |-> args, ret |-> FALSE]
                          ELSE [pc |-> "execute", args |-> args, params |-> params]]
    /\ UNCHANGED <<files, next_id, now, budget, last, fmt, upload, unit>>

\* conn.execute: the UPDATE takes the row lock and changes the row inside the
\* caller's transaction.
ConcExecute(p) ==
    /\ conc.sessions[p].pc = "execute"
    /\ RowLockFree(p)
    /\ conc' = [conc EXCEPT !.row_lock = p,
                            !.sessions[p] =
                                [pc |-> "commit", args |-> @.args, params |-> @.params,
                                 row |-> UpdateRow(files[1], @.params, now)]]
    /\ UNCHANGED <<files, next_id, now, budget, last, fmt, upload, unit>>

\* conn.commit: the change shows and the lock is released; or the commit raises
\* and the connection's close rolls the change back.
ConcCommit(p) ==
    /\ conc.sessions[p].pc = "commit"
    /\ \E ok \in BOOLEAN :
          IF ok
          THEN /\ files' = [files EXCEPT ![1] = conc.sessions[p].row]
               /\ conc' = [conc EXCEPT !.row_lock = 0,
                                       !.commits = Append(@, p),
                                       !.sessions[p] =
                                           [pc |-> "done", args |-> @.args, ret |-> TRUE]]
          ELSE /\ conc' = [conc EXCEPT !.row_lock = 0,
                                       !.sessions[p] =
                                           [pc |-> "done", args |-> @.args, raised |-> TRUE]]
               /\ UNCHANGED files
    /\ UNCHANGED <<next_id, now, budget, last, fmt, upload, unit>>

InitConc ==
    /\ files = [i \in {1} |-> ConcRow]
    /\ next_id = 2
    /\ now = 0
    /\ budget = 0
    /\ last = [op |-> "create",
               args |-> [name |-> A, content |-> AB, owner |-> Owner, memo |-> <<>>],
               raised |-> FALSE, ret |-> 1]
    /\ FmtInit
    /\ UploadIdle
    /\ UnitIdle
    /\ conc = [sessions |-> [p \in Sessions |-> [pc |-> "idle"]], row_lock |-> 0,
               commits |-> <<>>]

NextConc ==
    \/ \E p \in Sessions : ConcCall(p)
    \/ \E p \in Sessions : ConcExecute(p)
    \/ \E p \in Sessions : ConcCommit(p)
    \/ Tick

SpecConc == InitConc /\ [][NextConc]_vars

\* The value of column c after the committed calls, taken in the order of their
\* commits: that of the last call that supplied it, or the row's first value.
RECURSIVE LastWritten(_, _, _)
LastWritten(c, order, first) ==
    IF order = <<>> THEN first
    ELSE LET args == conc.sessions[order[Len(order)]].args
         IN  IF args[c] # None THEN args[c]
             ELSE LastWritten(c, SubSeq(order, 1, Len(order) - 1), first)

C9_SizeOfContent == files[1].size = Utf8ByteCount(files[1].content)

C9_Serial ==
    /\ files[1].name = LastWritten("name", conc.commits, ConcRow.name)
    /\ files[1].content = LastWritten("content", conc.commits, ConcRow.content)
    /\ files[1].memo = LastWritten("memo", conc.commits, ConcRow.memo)
    /\ files[1].owner = ConcRow.owner
    /\ \A p \in Sessions :
          (conc.sessions[p].pc = "done" /\ "ret" \in DOMAIN conc.sessions[p]
             /\ conc.sessions[p].ret)
          <=> \E k \in DOMAIN conc.commits : conc.commits[k] = p

C9_NoRevert ==
    \A p \in Sessions :
        (conc.sessions[p].pc = "commit" /\ conc'.sessions[p].pc = "done"
           /\ conc.sessions[p].args.content = None)
        => files'[1].content = files[1].content

\* C9: under every interleaving of concurrent update_file calls on one row, the
\* row is what the committed statements give when applied one after another in the
\* order of their commits, the last writer of each field winning; content and size
\* come from the same call, so size is the byte length of content in every state;
\* and a call that supplies only name or memo never changes the content another
\* call wrote.
C9_ConcurrentUpdates ==
    /\ [](C9_SizeOfContent /\ C9_Serial)
    /\ [][C9_NoRevert]_vars

\* C9's case: two calls that overlapped, one supplying content and the other only
\* a name, have both committed, the content first, and the row has both changes.
C9_Witness ==
    /\ conc.commits = <<1, 2>>
    /\ conc.sessions[1].args = [name |-> None, content |-> Multibyte, memo |-> None]
    /\ conc.sessions[2].args = [name |-> APercent, content |-> None, memo |-> None]
    /\ files[1].content = Multibyte /\ files[1].size = 9
    /\ files[1].name = APercent

(***************************************************************************)
(* The unit of work of a database operation (db/connection.py, and the    *)
(* with-blocks of core/document_manager.py).  unit.log is the sequence of *)
(* its events: "open", "execute", "exception", "commit", "rollback",      *)
(* "release", and "raise" when the exception reaches the caller.           *)
(*                                                                         *)
(* A connection begins its transaction at the first execute; closing a    *)
(* connection or a session whose transaction is not committed rolls it    *)
(* back.                                                                   *)
(***************************************************************************)
MaxUnits == 2       \* units of work in a run
MaxStatements == 2  \* statements in the body of one get_session block

UnitOps ==
    { "get_session", "_connect", "execute_query", "execute_update", "create_tables",
      "create_file", "get_file", "get_all_files", "update_file", "delete_file",
      "search_files" }

\* What an operation does before it connects: create_file and update_file encode
\* the content, which may raise, and update_file returns False when no field was
\* supplied; the others connect at once.
Prepared(op) ==
    IF op = "create_file"
    THEN {IF Encodable(a.content) THEN "connect" ELSE "raise" : a \in CreateArgs}
    ELSE IF op = "update_file"
    THEN {IF a.content # None /\ ~Encodable(a.content) THEN "raise"
          ELSE IF DOMAIN UpdateParams(a.name, a.content, a.memo) = {} THEN "return"
          ELSE "connect" : a \in UpdateArgs}
    ELSE {"connect"}

\* The write of create_tables: the files table.
FilesTable == <<0, 0>>

\* The with-blocks that never call conn.commit().
CommitsNever(op) == FALSE

\* The with-blocks that call conn.commit() after conn.execute().
Commits(op) ==
    op \in {"execute_update", "create_tables", "create_file", "update_file", "delete_file"}

\* The operations whose statement writes.
Writes(op) ==
    op \in {"execute_update", "create_tables", "create_file", "update_file", "delete_file"}

\* CREATE TABLE is a statement that MySQL commits as it executes.
ImplicitCommit(op) == op = "create_tables"

Finished == unit.pc \in {"idle", "returned", "raised"}

\* An operation is called, and runs up to the point where it connects.
UnitBegin ==
    /\ Finished
    /\ (IF unit.pc = "idle" THEN 0 ELSE unit.n) < MaxUnits
    /\ \E op \in UnitOps : \E prepared \in Prepared(op) :
          unit' = [op |-> op,
                   pc |-> IF prepared = "connect" THEN "open"
                          ELSE IF prepared = "return" THEN "returned" ELSE "raised",
                   log |-> IF prepared = "raise" THEN <<"exception", "raise">> ELSE <<>>,
                   n |-> (IF unit.pc = "idle" THEN 0 ELSE unit.n) + 1,
                   before |-> (IF unit.pc = "idle" THEN {} ELSE unit.committed),
                   committed |-> (IF unit.pc = "idle" THEN {} ELSE unit.committed),
                   pending |-> {}, written |-> {}, in_txn |-> FALSE,
                   exc |-> prepared = "raise"]
    /\ UNCHANGED <<files, next_id, now, budget, last, fmt, upload, conc>>

\* self.Session(), which connects to nothing yet; engine.connect(), which may raise.
UnitOpen ==
    /\ unit.pc = "open"
    /\ \E ok \in (IF unit.op = "get_session" THEN {TRUE} ELSE BOOLEAN) :
          unit' = IF ok
                  THEN [unit EXCEPT !.log = Append(@, "open"),
                                    !.pc = IF unit.op = "get_session" THEN "body" ELSE "execute"]
                  ELSE [unit EXCEPT !.log = <<"exception", "raise">>, !.exc = TRUE,
                                    !.pc = "raised"]
    /\ UNCHANGED <<files, next_id, now, budget, last, fmt, upload, conc>>

\* conn.execute() of a with-block, and what follows it in the block.
UnitExecute ==
    /\ unit.pc = "execute"
    /\ \E ok \in BOOLEAN :
          unit' = IF ok
                  THEN LET w == IF unit.op = "create_tables"
                                THEN {FilesTable} \ unit.committed
                                ELSE IF Writes(unit.op) THEN {<<unit.n, 1>>} ELSE {}
                       IN  [unit EXCEPT !.log = Append(@, "execute"), !.in_txn = TRUE,
                                        !.pending = IF ImplicitCommit(unit.op) THEN {} ELSE w,
                                        !.committed = IF ImplicitCommit(unit.op)
                                                      THEN @ \cup w ELSE @,
                                        !.written = w,
                                        !.pc = IF Commits(unit.op) THEN "commit" ELSE "close"]
                  ELSE [unit EXCEPT !.log = Append(@, "exception"), !.in_txn = TRUE,
                                    !.exc = TRUE, !.pc = "close"]
    /\ UNCHANGED <<files, next_id, now, budget, last, fmt, upload, conc>>

\* The caller's body of a get_session block (the yield): a statement that writes,
\* an exception, which except Exception catches or (a BaseException) does not, or
\* the end of the body.
UnitBody ==
    /\ unit.pc = "body"
    /\ \/ /\ Cardinality(unit.written) < MaxStatements
          /\ LET w == <<unit.n, Cardinality(unit.written) + 1>>
             IN  unit' = [unit EXCEPT !.log = Append(@, "execute"), !.in_txn = TRUE,
                                      !.pending = @ \cup {w}, !.written = @ \cup {w}]
       \/ \E caught \in BOOLEAN :
             unit' = [unit EXCEPT !.log = Append(@, "exception"), !.exc = TRUE,
                                  !.pc = IF caught THEN "except" ELSE "close"]
       \/ unit' = [unit EXCEPT !.pc = "commit"]
    /\ UNCHANGED <<files, next_id, now, budget, last, fmt, upload, conc>>

\* session.commit() and conn.commit(): the transaction's writes are committed, or
\* the commit raises.
UnitCommit ==
    /\ unit.pc = "commit"
    /\ \E ok \in BOOLEAN :
          unit' = IF ok
                  THEN [unit EXCEPT !.log = Append(@, "commit"), !.in_txn = FALSE,
                                    !.committed = @ \cup unit.pending, !.pending = {},
                                    !.pc = "close"]
                  ELSE [unit EXCEPT !.log = Append(@, "exception"), !.exc = TRUE,
                                    !.pc = IF unit.op = "get_session" THEN "except" ELSE "close"]
    /\ UNCHANGED <<files, next_id, now, budget, last, fmt, upload, conc>>

\* except Exception of get_session: session.rollback(), then raise.
UnitExcept ==
    /\ unit.pc = "except"
    /\ unit' = [unit EXCEPT !.log = Append(@, "rollback"), !.in_txn = FALSE,
                            !.pending = {}, !.pc = "close"]
    /\ UNCHANGED <<files, next_id, now, budget, last, fmt, upload, conc>>

\* finally: session.close(), and the with-block's exit, conn.close(): a transaction
\* still open is rolled back, the connection is released, and the exception, if
\* there is one, goes on to the caller.
UnitClose ==
    /\ unit.pc = "close"
    /\ unit' = [unit EXCEPT
                  !.log = @ \o (IF unit.in_txn THEN <<"rollback">> ELSE <<>>)
                            \o <<"release">>
                            \o (IF unit.exc THEN <<"raise">> ELSE <<>>),
                  !.in_txn = FALSE, !.pending = {},
                  !.pc = IF unit.exc THEN "raised" ELSE "returned"]
    /\ UNCHANGED <<files, next_id, now, budget, last, fmt, upload, conc>>

InitUnit ==
    /\ StoreInit
    /\ budget = 0
    /\ FmtInit
    /\ UploadIdle
    /\ ConcIdle
    /\ UnitIdle

NextUnit ==
    \/ UnitBegin
    \/ UnitOpen
    \/ UnitExecute
    \/ UnitBody
    \/ UnitCommit
    \/ UnitExcept
    \/ UnitClose

SpecUnit == InitUnit /\ [][NextUnit]_vars

\* The positions of event e in the log.
At(e) == {k \in DOMAIN unit.log : unit.log[k] = e}

\* The order of a unit of work's events, whatever it does on success.  As
\* stated, every exception is followed by a rollback and leaves no write of the
\* unit committed; otherwise a get_session block that executed nothing may end
\* without a rollback, and the table made by create_tables stays.
UnitOrder(stated) ==
    /\ \A e \in {"open", "commit", "release", "raise"} : Cardinality(At(e)) <= 1
    /\ At("open") \subseteq {1}
    /\ \A k \in At("execute") \cup At("commit") \cup At("rollback") \cup At("release") :
          At("open") # {} /\ k > 1
    \* a commit follows no exception
    /\ \A c \in At("commit") : \A x \in At("exception") : c < x
    \* a rollback comes after what it undoes and before the release
    /\ \A b \in At("rollback") : \A r \in At("release") : b < r
    \* nothing but the raise follows the release
    /\ \A r \in At("release") : \A k \in DOMAIN unit.log :
          k > r => unit.log[k] = "raise"
    \* the exception reaches the caller after the rollback and the release
    /\ unit.pc = "raised" =>
          /\ At("raise") = {Len(unit.log)}
          /\ At("exception") # {}
          /\ unit.committed =
                IF ~stated /\ ImplicitCommit(unit.op) THEN unit.before \cup unit.written
                ELSE unit.before
          /\ At("open") # {} =>
                /\ At("release") # {}
                /\ \/ \E b \in At("rollback") : \A x \in At("exception") : x < b
                   \/ ~stated /\ unit.op = "get_session" /\ At("execute") = {}
    /\ unit.pc = "returned" =>
          /\ At("exception") = {} /\ At("raise") = {}
          /\ unit.log = <<>> \/ At("release") = {Len(unit.log)}
    /\ unit.pc \in {"returned", "raised"} => unit.pending = {}

\* C10 as amended: every unit of work runs open, execute, then commit or rollback,
\* then release; a commit happens only if nothing raised; on an exception the
\* rollback and the release come before the exception reaches the caller (a
\* get_session block that executed nothing may end without a rollback) and no
\* write of the unit stays committed; the connection or session is released on
\* every path; the table made by create_tables is committed by the database as
\* the statement executes and stays whatever follows.  An update_file call with no
\* field returns without a unit of work.  On success get_session and the blocks of
\* execute_update, create_tables, create_file, update_file and delete_file commit
\* their writes;
\* the blocks of execute_query, get_file, get_all_files, search_files and the
\* connection probe do not commit: their transaction is rolled back at the release.
C10_UnitOfWork ==
    (unit.pc # "idle") =>
        /\ UnitOrder(FALSE)
        /\ unit.pc = "returned" =>
              IF unit.log = <<>>
              THEN /\ unit.op = "update_file"
                   /\ unit.written = {}
                   /\ unit.committed = unit.before
              ELSE IF unit.op \in {"get_session", "execute_update", "create_tables",
                                   "create_file", "update_file", "delete_file"}
              THEN /\ At("commit") # {}
                   /\ At("rollback") = {}
                   /\ unit.committed = unit.before \cup unit.written
                   /\ unit.op \notin {"get_session", "create_tables"} => unit.written # {}
              ELSE /\ At("commit") = {}
                   /\ At("rollback") # {}
                   /\ unit.committed = unit.before

\* C10 as stated: the same order, with a rollback after every exception and a
\* commit on the success of every operation, the blocks of execute_query and of
\* the document manager's reads included.
C10_CommitOnEverySuccess ==
    (unit.pc # "idle") =>
        /\ UnitOrder(TRUE)
        /\ (unit.pc = "returned" /\ unit.log # <<>>) =>
              /\ At("commit") # {}
              /\ unit.committed = unit.before \cup unit.written

\* C10's case: the body of a get_session block wrote and then raised, in a second
\* unit of work after one that committed: the write is rolled back before the
\* exception goes on, and what was committed before stays.
C10_Witness ==
    /\ unit.pc = "raised"
    /\ unit.op = "get_session"
    /\ unit.log = <<"open", "execute", "exception", "rollback", "release", "raise">>
    /\ unit.written # {}
    /\ unit.before # {}
    /\ unit.committed = unit.before

(***************************************************************************)
(* Properties of listing and searching.                                    *)
(***************************************************************************)
\* The lower-case form of a character up to U+00FF: case only, accents kept.
LowerCase(c) ==
    IF c >= 65 /\ c <= 90 THEN c + 32
    ELSE IF c >= 192 /\ c <= 222 /\ c # 215 THEN c + 32
    ELSE c

\* t occurs in s as a run of consecutive characters, letters compared without
\* regard to case.
Contains(s, t) ==
    \E j \in 0..(Len(s) - Len(t)) :
        \A k \in 1..Len(t) : LowerCase(s[j + k]) = LowerCase(t[k])

\* The rows of a result come by creation time, latest first, no id twice.
NewestFirst(rows) ==
    \A j, k \in DOMAIN rows : j < k => (rows[j][3] >= rows[k][3] /\ rows[j][1] # rows[k][1])

\* How a byte count below 1024 is rendered.
SmallSizeText(n) == IF n = 0 THEN "0B" ELSE ToString(n) \o ".0B"

\* C5: for every term ('%', '_' and the empty term included) search_files returns
\* exactly the rows whose name or content contains the term as a case-insensitive
\* substring, ordered by creation time descending.
C5_SearchIsSubstringMatch ==
    (last.op = "search") =>
        LET rows == last.ret.rows
        IN  /\ {rows[k][1] : k \in DOMAIN rows} =
                  {i \in DOMAIN files : \/ Contains(files[i].name, last.search_term)
                                        \/ Contains(files[i].content, last.search_term)}
            /\ NewestFirst(rows)

\* C7: get_all_files returns one summary (id, name, date_created, formatted size,
\* has_memo) per stored row and none for a deleted row, ordered by creation time
\* descending, with has_memo 'Yes' exactly when the memo is not NULL; for an empty
\* table the result has no rows and the same five columns.
C7_ListIsTable ==
    (last.op = "list") =>
        LET rows == last.ret.rows
        IN  /\ last.ret.columns = <<"id", "name", "date_created", "size", "has_memo">>
            /\ Len(rows) = Cardinality(DOMAIN files)
            /\ {rows[k][1] : k \in DOMAIN rows} = DOMAIN files
            /\ NewestFirst(rows)
            /\ \A k \in DOMAIN rows :
                  LET row == files[rows[k][1]]
                  IN  /\ Len(rows[k]) = 5
                      /\ rows[k][2] = row.name
                      /\ rows[k][3] = row.date_created
                      /\ rows[k][4] = SmallSizeText(Utf8ByteCount(row.content))
                      /\ rows[k][5] \in {"Yes", "No"}
                      /\ rows[k][5] = "Yes" <=> row.memo # None

\* C7's case: a listing of two rows created at different times, the later one with
\* an empty memo and the earlier one with none.
C7_Witness ==
    /\ last.op = "list"
    /\ Len(last.ret.rows) = 2
    /\ last.ret.rows[1][3] > last.ret.rows[2][3]
    /\ files[last.ret.rows[1][1]].memo = <<>> /\ last.ret.rows[1][5] = "Yes"
    /\ files[last.ret.rows[2][1]].memo = None /\ last.ret.rows[2][5] = "No"
    /\ last.ret.rows[2][4] = "0B" /\ last.ret.rows[1][4] = "2.0B"

=============================================================================
